---- MODULE Spec2Model ----
(***************************************************************************)
(* NOVASAFE route safety scoring: the report store (models/SafetyReport,   *)
(* routes/reports.js) and the scoring pipeline of routes/routes.js.        *)
(*                                                                         *)
(* Numbers.  JavaScript numbers are modelled as exact fixed-point values:  *)
(*   - weights of the impact model are kept in tenths, an impact in        *)
(*     hundredths (a product of two tenths);                               *)
(*   - a factor value v is the integer v * Scale, Scale = 100 * Unit,      *)
(*     where Unit is the least common multiple of the possible result      *)
(*     lengths of one proximity query, so that impact / length is exact;   *)
(*   - overall is the integer number of tenths Math.round produced.        *)
(* The arithmetic is exact where the code's is IEEE double; Math.round     *)
(* takes ties upward, as here.                                             *)
(* Coordinates are integers in units of 1e-5 degree (the decoder's          *)
(* accumulators; the decoder divides them by 1e5).                         *)
(***************************************************************************)
EXTENDS Integers, Sequences, FiniteSets, TLC

VARIABLES
    reports,       \* SafetyReport collection, in creation order
    pc,            \* position of the scoring call: "idle", "query", "done", "rejected"
    polyline,      \* argument of calculateRouteSafetyScore (char codes)
    routePoints,   \* routes.js:219
    samplePoints,  \* routes.js:222
    sampleIdx,     \* number of sample points whose query has resolved
    factors,       \* routes.js:225 accumulators, before normalisation
    queries,       \* proximity queries issued so far, in order
    results,       \* what each resolved query returned, in order
    score,         \* value returned by calculateRouteSafetyScore, or NoScore
    calcPc,        \* POST /calculate: "idle", "scoring", "responded"
    request,       \* its request: userId and routePreference
    routes,        \* googleMapsResponse.data.routes
    tasks,         \* one async map callback per route (routes.js:39)
    routeDocs,     \* Route collection
    response,      \* what the handler answered
    reply,         \* answer of the last GET /:routeId, save or feedback request
    called,        \* helper function applied on its own, with its argument
    returned,      \* what that application returned
    posts,         \* POST /reports requests: body, position and answer
    events,        \* new-safety-report events published through io, in order
    dec            \* one application of decodePolyline followed step by step

scoreVars == <<pc, polyline, routePoints, samplePoints, sampleIdx, factors, queries, results, score>>
calcVars == <<calcPc, request, routes, tasks, routeDocs, response>>
otherVars == <<reply, called, returned, posts, events, dec>>
vars == <<reports, scoreVars, calcVars, otherVars>>

(***************************************************************************)
(* Bounds of the model.                                                    *)
(***************************************************************************)
MaxReports == 2    \* reports the store holds at most
MaxPoints == 21    \* decoded points of the longest polyline scored
MaxAlts == 3       \* alternatives the directions provider returns at most

(***************************************************************************)
(* Small helpers.                                                          *)
(***************************************************************************)
Abs(x) == IF x < 0 THEN 0 - x ELSE x
Min2(a, b) == IF a < b THEN a ELSE b
Max2(a, b) == IF a > b THEN a ELSE b

RECURSIVE Gcd(_, _)
Gcd(a, b) == IF b = 0 THEN a ELSE Gcd(b, a % b)

RECURSIVE LcmUpTo(_)
LcmUpTo(n) == IF n <= 1 THEN 1 ELSE LET l == LcmUpTo(n - 1) IN (l * n) \div Gcd(l, n)

RECURSIVE SumSeq(_)
SumSeq(s) == IF s = <<>> THEN 0 ELSE Head(s) + SumSeq(Tail(s))

Reverse(s) == [i \in 1..Len(s) |-> s[Len(s) + 1 - i]]

Unit == LcmUpTo(MaxReports)
Scale == 100 * Unit

(***************************************************************************)
(* models/SafetyReport: enums and the report impact model.                 *)
(***************************************************************************)
Severities == {"low", "medium", "high", "critical"}
ReportTypes == {"Poor Street Lighting", "Harassment", "Road Hazard",
                "Lack of Police Presence", "Suspicious Activity",
                "Theft/Robbery", "Unsafe Area", "Other"}
Statuses == {"pending", "verified", "resolved", "dismissed"}

\* variant: the weight of "low" entered with the wrong sign
severityWeights_SignSlip ==
    [s \in Severities |->
        CASE s = "low" -> 5
          [] s = "medium" -> -15
          [] s = "high" -> -30
          [] s = "critical" -> -50]

\* in tenths
severityWeights ==
    [s \in Severities |->
        CASE s = "low" -> -5
          [] s = "medium" -> -15
          [] s = "high" -> -30
          [] s = "critical" -> -50]

\* in tenths
typeWeights ==
    [t \in ReportTypes |->
        CASE t = "Poor Street Lighting" -> 10
          [] t = "Harassment" -> 25
          [] t = "Road Hazard" -> 15
          [] t = "Lack of Police Presence" -> 18
          [] t = "Suspicious Activity" -> 20
          [] t = "Theft/Robbery" -> 30
          [] t = "Unsafe Area" -> 25
          [] t = "Other" -> 10]

\* in hundredths
calculateSafetyImpact(report) ==
    severityWeights[report.severity] * typeWeights[report.reportType]

(***************************************************************************)
(* The geospatial store's distance.  $near / $maxDistance of the 2dsphere  *)
(* index measures metres on the sphere; the model uses the planar          *)
(* stand-in 1e-5 degree = 1.11 m on both axes.  Coordinates are            *)
(* <<longitude, latitude>> as in the schema.                               *)
(***************************************************************************)
DistanceMetres(a, b) == (111 * (Abs(a[1] - b[1]) + Abs(a[2] - b[2]))) \div 100

\* variant: the status filter left out of the query
findNearby_AnyStatus(collection, coordinates, maxDistance) ==
    LET Match(r) == DistanceMetres(r.coordinates, coordinates) <= maxDistance
    IN  Reverse(SelectSeq(collection, Match))

findNearby(collection, coordinates, maxDistance) ==
    LET Match(r) == /\ DistanceMetres(r.coordinates, coordinates) <= maxDistance
                    /\ r.status \in {"verified", "pending"}
    IN  Reverse(SelectSeq(collection, Match))

(***************************************************************************)
(* decodePolyline.  charCodeAt past the end of the string is NaN; NaN - 63 *)
(* is NaN, NaN & 0x1f is 0 and NaN >= 0x20 is false.  The 5-bit fields of  *)
(* one group are disjoint, so |= adds; with groups of at most five         *)
(* characters the shifted value stays below 2^31 and int32 wrap-around     *)
(* does not occur.                                                         *)
(***************************************************************************)
\* NaN when index is past the end of the string
isNaNAt(encoded, index) == index >= Len(encoded)

charCodeAt(encoded, index) == encoded[index + 1]

RECURSIVE readGroup(_, _, _, _)
readGroup(encoded, index, shift, result) ==
    LET nan == isNaNAt(encoded, index)
        b == IF nan THEN 0 ELSE charCodeAt(encoded, index) - 63
        low == IF nan THEN 0 ELSE b % 32
        r == result + low * (2 ^ shift)
    IN  IF ~nan /\ b >= 32
        THEN readGroup(encoded, index + 1, shift + 5, r)
        ELSE [result |-> r, index |-> index + 1]

\* variant: the sign bit shifted out but never applied
zigzag_NoSign(result) == result \div 2

zigzag(result) ==
    IF result % 2 = 1 THEN 0 - (result \div 2) - 1 ELSE result \div 2

RECURSIVE decodeFrom(_, _, _, _, _)
decodeFrom(encoded, index, lat, lng, points) ==
    IF index < Len(encoded)
    THEN LET g1 == readGroup(encoded, index, 0, 0)
             lat2 == lat + zigzag(g1.result)
             g2 == readGroup(encoded, g1.index, 0, 0)
             lng2 == lng + zigzag(g2.result)
         IN  decodeFrom(encoded, g2.index, lat2, lng2,
                        Append(points, [lat |-> lat2, lng |-> lng2]))
    ELSE points

\* variant: the outer loop tests its condition after the body (do ... while)
decodePolyline_DoWhile(encoded) ==
    LET g1 == readGroup(encoded, 0, 0, 0)
        g2 == readGroup(encoded, g1.index, 0, 0)
        first == [lat |-> zigzag(g1.result), lng |-> zigzag(g2.result)]
    IN  decodeFrom(encoded, g2.index, first.lat, first.lng, <<first>>)

decodePolyline(encoded) == decodeFrom(encoded, 0, 0, 0, <<>>)

(***************************************************************************)
(* calculateRouteSafetyScore, piece by piece.                              *)
(***************************************************************************)
FactorNames == <<"lighting", "policePresence", "crimeRate",
                 "pedestrianTraffic", "roadCondition", "communityReports">>

\* variant: communityReports starts at 7
priors_Seven ==
    [lighting |-> 7 * Scale, policePresence |-> 6 * Scale, crimeRate |-> 7 * Scale,
     pedestrianTraffic |-> 6 * Scale, roadCondition |-> 7 * Scale,
     communityReports |-> 7 * Scale]

\* variant: policePresence starts at 7
priors_PoliceSeven ==
    [lighting |-> 7 * Scale, policePresence |-> 7 * Scale, crimeRate |-> 7 * Scale,
     pedestrianTraffic |-> 6 * Scale, roadCondition |-> 7 * Scale,
     communityReports |-> 8 * Scale]

priors ==
    [lighting |-> 7 * Scale, policePresence |-> 6 * Scale, crimeRate |-> 7 * Scale,
     pedestrianTraffic |-> 6 * Scale, roadCondition |-> 7 * Scale,
     communityReports |-> 8 * Scale]

\* in hundredths, in the order Object.entries walks them
weights ==
    <<[factor |-> "lighting", weight |-> 20],
      [factor |-> "policePresence", weight |-> 20],
      [factor |-> "crimeRate", weight |-> 25],
      [factor |-> "pedestrianTraffic", weight |-> 15],
      [factor |-> "roadCondition", weight |-> 10],
      [factor |-> "communityReports", weight |-> 10]>>

SampleStride == 10
QueryRadius == 500

\* variant: the last point is always kept as a sample
sample_WithLast(points) ==
    LET keep == SelectSeq([i \in 1..Len(points) |-> i - 1],
                          LAMBDA index : index % SampleStride = 0
                                         \/ index = Len(points) - 1)
    IN  [k \in 1..Len(keep) |-> points[keep[k] + 1]]

sample(points) ==
    LET keep == SelectSeq([i \in 1..Len(points) |-> i - 1],
                          LAMBDA index : index % SampleStride = 0)
    IN  [k \in 1..Len(keep) |-> points[keep[k] + 1]]

queryFor(point) == [coordinates |-> <<point.lng, point.lat>>, maxDistance |-> QueryRadius]

\* variant: the impact is added undivided (sum instead of mean)
perReport_Sum(report, length) == calculateSafetyImpact(report) * Unit

\* impact / nearbyReports.length, in factor units (exact: length divides Unit)
perReport(report, length) == (calculateSafetyImpact(report) * Unit) \div length

\* variant: = written for += in the forEach callback
RECURSIVE addReports_Assign(_, _, _)
addReports_Assign(f, nearbyReports, length) ==
    IF nearbyReports = <<>> THEN f
    ELSE addReports_Assign(
            [f EXCEPT !.communityReports =
                (calculateSafetyImpact(Head(nearbyReports)) * Unit) \div length],
            Tail(nearbyReports), length)

\* variant: -= written for += in the forEach callback
RECURSIVE addReports_Subtract(_, _, _)
addReports_Subtract(f, nearbyReports, length) ==
    IF nearbyReports = <<>> THEN f
    ELSE addReports_Subtract(
            [f EXCEPT !.communityReports = @ - perReport(Head(nearbyReports), length)],
            Tail(nearbyReports), length)

RECURSIVE addReports(_, _, _)
addReports(f, nearbyReports, length) ==
    IF nearbyReports = <<>> THEN f
    ELSE addReports(
            [f EXCEPT !.communityReports = @ + perReport(Head(nearbyReports), length)],
            Tail(nearbyReports), length)

addQuery(f, nearbyReports) ==
    IF Len(nearbyReports) > 0 THEN addReports(f, nearbyReports, Len(nearbyReports)) ELSE f

\* variant: the normalisation step left out
normalize_None(f) == f

normalize(f) ==
    [key \in DOMAIN f |-> Max2(0, Min2(10 * Scale, f[key]))]

RECURSIVE weightedSum(_, _, _)
weightedSum(f, ws, totalScore) ==
    IF ws = <<>> THEN totalScore
    ELSE weightedSum(f, Tail(ws), totalScore + f[Head(ws).factor] * Head(ws).weight)

\* variant: Math.floor for Math.round
roundTenths_Floor(totalScore) == totalScore \div (10 * Scale)

\* Math.round(totalScore * 10): totalScore is in units of 1/(100*Scale); ties go up
roundTenths(totalScore) == (2 * totalScore + 10 * Scale) \div (20 * Scale)

finish(f) ==
    LET clamped == normalize(f)
    IN  [overall |-> roundTenths(weightedSum(clamped, weights, 0)), factors |-> clamped]

(***************************************************************************)
(* models/Route: calculateSafetyScore recomputes overall from the factors  *)
(* of a stored record.                                                     *)
(***************************************************************************)
Route_weights ==
    <<[factor |-> "lighting", weight |-> 20],
      [factor |-> "policePresence", weight |-> 20],
      [factor |-> "crimeRate", weight |-> 25],
      [factor |-> "pedestrianTraffic", weight |-> 15],
      [factor |-> "roadCondition", weight |-> 10],
      [factor |-> "communityReports", weight |-> 10]>>

RECURSIVE Route_sum(_, _, _)
Route_sum(doc, ws, sc) ==
    IF ws = <<>> THEN sc
    ELSE Route_sum(doc, Tail(ws), sc + doc.safetyScore.factors[Head(ws).factor] * Head(ws).weight)

Route_calculateSafetyScore(doc) ==
    (2 * Route_sum(doc, Route_weights, 0) + 10 * Scale) \div (20 * Scale)

(***************************************************************************)
(* Inputs.                                                                 *)
(***************************************************************************)
\* "_C?" : latitude delta +64 (two characters), longitude delta 0
PointGroup == <<95, 67, 63>>

RECURSIVE Repeat(_, _)
Repeat(s, n) == IF n = 0 THEN <<>> ELSE s \o Repeat(s, n - 1)

\* route lengths at and just after the multiples of the sampling stride
PointCounts == {n \in 0..MaxPoints : n % SampleStride <= 2}

Polylines == {Repeat(PointGroup, n) : n \in PointCounts}

\* request bodies of POST /reports: {reportType, severity, location}
ReportBodies ==
    { [reportType |-> "Other", severity |-> "low", description |-> "d",
       location |-> [lng |-> 0, lat |-> 0, address |-> "a"]],
      [reportType |-> "Theft/Robbery", severity |-> "critical", description |-> "d",
       location |-> [lng |-> 0, lat |-> 384, address |-> "a"]],
      [reportType |-> "Lack of Police Presence", severity |-> "medium", description |-> "d",
       location |-> [lng |-> 0, lat |-> 1000, address |-> "a"]],
      [reportType |-> "Harassment", severity |-> "high", description |-> "d",
       location |-> [lng |-> 5000, lat |-> 64, address |-> "a"]] }

NoScore == [overall |-> -1, factors |-> <<>>]
NoRequest == [userId |-> "", routePreference |-> ""]
NoResponse == [status |-> 0, routes |-> <<>>]
NoReply == [op |-> "", routeId |-> 0, userId |-> "", status |-> 0, error |-> "", body |-> <<>>]
\* an absent feedback subdocument; ratings given by clients are 1..5
NoFeedback == [rating |-> 0, comment |-> "", feltSafe |-> FALSE]
NoCall == [function |-> "", argument |-> <<>>]
NoReturn == [error |-> "", value |-> <<>>]
NoDecode ==
    [pc |-> "idle", encoded |-> <<>>, index |-> 0, lat |-> 0, lng |-> 0,
     shift |-> 0, result |-> 0, points |-> <<>>]

(***************************************************************************)
(* Report store operations (routes/reports.js).                            *)
(***************************************************************************)
\* reports.js:26-39 with the schema defaults: the document of a request body.
\* "" stands for a field the body does not give.  _id and createdAt are set
\* when the document is stored: the ordinal of the insertion.
newReport(id, body) ==
    [_id |-> id,
     reportType |-> body.reportType,
     severity |-> IF body.severity = "" THEN "medium" ELSE body.severity,
     coordinates |-> <<body.location.lng, body.location.lat>>,
     status |-> "pending",
     createdAt |-> id,
     votes |-> [helpful |-> 0, users |-> <<>>]]

\* reports.js:45-51: the payload of the new-safety-report event
eventOf(report) ==
    [reportId |-> report._id,
     reportType |-> report.reportType,
     location |-> report.coordinates,
     severity |-> report.severity,
     timestamp |-> report.createdAt]

\* The store is followed until the scoring call has returned or rejected.
\* POST /reports with a valid body, from the request to the 201 answer; the
\* schema default makes it pending and timeOfIncident defaults to the time of
\* the request
CreateReport(body) ==
    /\ pc \notin {"done", "rejected"}
    /\ Len(reports) < MaxReports
    /\ LET report == newReport(Len(reports) + 1, body)
       IN  /\ reports' = Append(reports, report)
           /\ events' = Append(events, eventOf(report))
    /\ UNCHANGED <<scoreVars, calcVars, reply, called, returned, posts, dec>>

\* PATCH /reports/:reportId by the author, body {status}; any other user gets
\* 404 and changes nothing
PatchReport(i, status) ==
    /\ pc \notin {"done", "rejected"}
    /\ i \in 1..Len(reports)
    /\ reports' = [reports EXCEPT ![i].status = status]
    /\ UNCHANGED <<scoreVars, calcVars, otherVars>>

(***************************************************************************)
(* calculateRouteSafetyScore as a process: runs to its first await, then   *)
(* one step per resolved proximity query; the code after the loop runs     *)
(* with the last query's continuation.                                     *)
(***************************************************************************)
ScoreStart(encoded) ==
    /\ pc = "idle"
    /\ LET decoded == decodePolyline(encoded)
           sp == sample(decoded)
       IN  /\ polyline' = encoded
           /\ routePoints' = decoded
           /\ samplePoints' = sp
           /\ sampleIdx' = 0
           /\ factors' = priors
           /\ results' = <<>>
           /\ IF Len(sp) = 0
              THEN /\ queries' = <<>>
                   /\ score' = finish(priors)
                   /\ pc' = "done"
              ELSE /\ queries' = <<queryFor(sp[1])>>
                   /\ score' = NoScore
                   /\ pc' = "query"
    /\ UNCHANGED <<reports, calcVars, otherVars>>

ScoreQuery ==
    /\ pc = "query"
    /\ LET q == queries[sampleIdx + 1]
           nearbyReports == findNearby(reports, q.coordinates, q.maxDistance)
           f == addQuery(factors, nearbyReports)
       IN  /\ factors' = f
           /\ results' = Append(results,
                  [k \in 1..Len(nearbyReports) |->
                      [reportType |-> nearbyReports[k].reportType,
                       severity |-> nearbyReports[k].severity]])
           /\ sampleIdx' = sampleIdx + 1
           /\ IF sampleIdx + 1 < Len(samplePoints)
              THEN /\ queries' = Append(queries, queryFor(samplePoints[sampleIdx + 2]))
                   /\ score' = NoScore
                   /\ pc' = "query"
              ELSE /\ queries' = queries
                   /\ score' = finish(f)
                   /\ pc' = "done"
    /\ UNCHANGED <<reports, polyline, routePoints, samplePoints, calcVars, otherVars>>

\* the pending findNearby rejects: the await rethrows, nothing is returned
ScoreQueryFail ==
    /\ pc = "query"
    /\ pc' = "rejected"
    /\ UNCHANGED <<reports, polyline, routePoints, samplePoints, sampleIdx, factors, queries,
                   results, score, calcVars, otherVars>>

ScoreIdle ==
    /\ pc = "idle"
    /\ polyline = <<>>
    /\ routePoints = <<>>
    /\ samplePoints = <<>>
    /\ sampleIdx = 0
    /\ factors = priors
    /\ queries = <<>>
    /\ results = <<>>
    /\ score = NoScore

CalcIdle ==
    /\ calcPc = "idle"
    /\ request = NoRequest
    /\ routes = <<>>
    /\ tasks = <<>>
    /\ routeDocs = <<>>
    /\ response = NoResponse

OtherIdle ==
    /\ reply = NoReply
    /\ called = NoCall
    /\ returned = NoReturn
    /\ posts = <<>>
    /\ events = <<>>
    /\ dec = NoDecode

Init ==
    /\ reports = <<>>
    /\ ScoreIdle
    /\ CalcIdle
    /\ OtherIdle

Next ==
    \/ \E body \in ReportBodies : CreateReport(body)
    \/ \E i \in 1..MaxReports, s \in Statuses : PatchReport(i, s)
    \/ \E encoded \in Polylines : ScoreStart(encoded)
    \/ ScoreQuery
    \/ ScoreQueryFail

Spec == Init /\ [][Next]_vars

(***************************************************************************)
(* POST /calculate (routes.js:10-129).  A provider route is flattened to   *)
(* [overview_polyline, duration, start_address, end_address], the last     *)
(* three read from legs[0].                                                *)
(***************************************************************************)
MinOf(S) == CHOOSE m \in S : \A x \in S : m <= x

\* variant: a single winner, the first route that attains the minimum
routeTypeOf_SingleWinner(index, safetyScore, duration, rs) ==
    LET first == IF index = 0 /\ safetyScore.overall >= 80 THEN "safest" ELSE "balanced"
        minimum == MinOf({rs[k].duration : k \in 1..Len(rs)})
        winner == CHOOSE k \in 1..Len(rs) :
                      /\ rs[k].duration = minimum
                      /\ \A j \in 1..(k - 1) : rs[j].duration # minimum
    IN  IF index + 1 = winner THEN "fastest" ELSE first

\* variant: the index test left out of the safest condition
routeTypeOf_AnyIndex(index, safetyScore, duration, rs) ==
    LET first == IF safetyScore.overall >= 80 THEN "safest" ELSE "balanced"
    IN  IF duration = MinOf({rs[k].duration : k \in 1..Len(rs)})
        THEN "fastest" ELSE first

\* routes.js:46-48; index is 0-based, overall is in tenths
routeTypeOf(index, safetyScore, duration, rs) ==
    LET first == IF index = 0 /\ safetyScore.overall >= 80 THEN "safest" ELSE "balanced"
    IN  IF duration = MinOf({rs[k].duration : k \in 1..Len(rs)})
        THEN "fastest" ELSE first

\* variant: the four tests chained with else
generateRouteTags_ElseIf(safetyScore) ==
    IF safetyScore.factors.lighting >= 7 * Scale THEN <<"Well-Lit">>
    ELSE IF safetyScore.factors.policePresence >= 7 * Scale THEN <<"Police Patrolled">>
    ELSE IF safetyScore.factors.pedestrianTraffic >= 6 * Scale THEN <<"High Traffic">>
    ELSE IF safetyScore.factors.roadCondition >= 7 * Scale THEN <<"Main Roads">>
    ELSE <<>>

generateRouteTags(safetyScore) ==
    LET t1 == IF safetyScore.factors.lighting >= 7 * Scale THEN <<"Well-Lit">> ELSE <<>>
        t2 == IF safetyScore.factors.policePresence >= 7 * Scale
              THEN Append(t1, "Police Patrolled") ELSE t1
        t3 == IF safetyScore.factors.pedestrianTraffic >= 6 * Scale
              THEN Append(t2, "High Traffic") ELSE t2
        t4 == IF safetyScore.factors.roadCondition >= 7 * Scale
              THEN Append(t3, "Main Roads") ELSE t3
    IN  t4

\* routes.js:45-87: what the callback does between the score and routeDoc.save()
scoredTask(index, samplePoints_, safetyScore, rs, userId) ==
    LET route == rs[index + 1]
        routeType == routeTypeOf(index, safetyScore, route.duration, rs)
    IN  [pc |-> "save",
         rejected |-> 0,
         samplePoints |-> samplePoints_,
         sampleIdx |-> 0,
         factors |-> safetyScore.factors,
         safetyScore |-> safetyScore,
         routeType |-> routeType,
         routeDoc |-> [_id |-> index + 1,
                       userId |-> userId,
                       origin |-> route.start_address,
                       destination |-> route.end_address,
                       routeData |-> [duration |-> route.duration,
                                      polyline |-> route.overview_polyline],
                       safetyScore |-> safetyScore,
                       routeType |-> routeType,
                       tags |-> generateRouteTags(safetyScore),
                       isSaved |-> FALSE,
                       isCompleted |-> FALSE,
                       completedAt |-> 0,
                       feedback |-> NoFeedback]]

\* the callback suspended at the findNearby of sample point sampleIdx;
\* samplePoints, sampleIdx and factors are the locals of its scoring call
queryingTask(samplePoints_, sampleIdx_, factors_) ==
    [pc |-> "query", rejected |-> 0, samplePoints |-> samplePoints_,
     sampleIdx |-> sampleIdx_, factors |-> factors_,
     safetyScore |-> NoScore, routeType |-> "", routeDoc |-> <<>>]

\* routes.js:91-107
processedRoute(task) ==
    [routeId |-> task.routeDoc._id,
     routeType |-> task.routeType,
     duration |-> [seconds |-> task.routeDoc.routeData.duration],
     safetyScore |-> task.safetyScore.overall,
     safetyFactors |-> task.safetyScore.factors,
     tags |-> task.routeDoc.tags,
     polyline |-> task.routeDoc.routeData.polyline]

\* 100 * a.seconds * b.seconds * (0.6 * safetyScore + (1 / seconds) * 10000 * 0.4)
composite(x, a, b) ==
    6 * x.safetyScore * a.duration.seconds * b.duration.seconds
        + 400000 * (IF x = a THEN b.duration.seconds ELSE a.duration.seconds)

\* variant: the operands of the safest comparison swapped
compareRoutes_SafestAscending(a, b, routePreference) ==
    IF routePreference = "safest" THEN a.safetyScore - b.safetyScore
    ELSE IF routePreference = "fastest" THEN a.duration.seconds - b.duration.seconds
    ELSE IF a = b THEN 0 ELSE composite(b, a, b) - composite(a, a, b)

\* routes.js:111-118: negative puts a first, positive puts b first
compareRoutes(a, b, routePreference) ==
    IF routePreference = "safest" THEN b.safetyScore - a.safetyScore
    ELSE IF routePreference = "fastest" THEN a.duration.seconds - b.duration.seconds
    ELSE IF a = b THEN 0 ELSE composite(b, a, b) - composite(a, a, b)

\* variant: an unstable sort, x is put ahead of the elements it ties with
RECURSIVE insertRoute_Unstable(_, _, _)
insertRoute_Unstable(x, sorted, routePreference) ==
    IF sorted = <<>> THEN <<x>>
    ELSE IF compareRoutes(x, Head(sorted), routePreference) <= 0
         THEN <<x>> \o sorted
         ELSE <<Head(sorted)>> \o insertRoute_Unstable(x, Tail(sorted), routePreference)

\* Array.prototype.sort is stable: x goes before the first element it precedes
RECURSIVE insertRoute(_, _, _)
insertRoute(x, sorted, routePreference) ==
    IF sorted = <<>> THEN <<x>>
    ELSE IF compareRoutes(x, Head(sorted), routePreference) < 0
         THEN <<x>> \o sorted
         ELSE <<Head(sorted)>> \o insertRoute(x, Tail(sorted), routePreference)

RECURSIVE sortRoutes(_, _, _)
sortRoutes(list, sorted, routePreference) ==
    IF list = <<>> THEN sorted
    ELSE sortRoutes(Tail(list), insertRoute(Head(list), sorted, routePreference),
                    routePreference)

Users == {"u1"}
Preferences == {"safest", "fastest", "balanced"}

\* routes the directions provider may return
ProviderRoutes ==
    { [overview_polyline |-> Repeat(PointGroup, 11), duration |-> 600,
       start_address |-> "A", end_address |-> "B"],
      [overview_polyline |-> Repeat(PointGroup, 1), duration |-> 500,
       start_address |-> "A", end_address |-> "B"],
      [overview_polyline |-> <<>>, duration |-> 500,
       start_address |-> "A", end_address |-> "B"] }

RouteLists == UNION {[1..k -> ProviderRoutes] : k \in 1..MaxAlts}

\* stores the request may run against: empty, or one pending report that lies
\* within reach of the first sample point only or of every sample point
CalcStores ==
    {<<>>} \cup
    { <<newReport(1, body)>> :
      body \in {b \in ReportBodies : b.reportType \in {"Other", "Theft/Robbery"}} }

\* the handler up to Promise.all: every callback runs to its first pending await
CalcStart(userId, routePreference, rs) ==
    /\ calcPc = "idle"
    /\ request' = [userId |-> userId, routePreference |-> routePreference]
    /\ routes' = rs
    /\ tasks' = [k \in 1..Len(rs) |->
            LET sp == sample(decodePolyline(rs[k].overview_polyline))
            IN  IF sp = <<>>
                THEN scoredTask(k - 1, sp, finish(priors), rs, userId)
                ELSE queryingTask(sp, 0, priors)]
    /\ calcPc' = "scoring"
    /\ UNCHANGED <<reports, scoreVars, routeDocs, response, otherVars>>

\* variant: the accumulators declared once for all calls (scoreVars' factors)
TaskQuery_SharedFactors(k) ==
    /\ calcPc # "idle"
    /\ k \in 1..Len(tasks)
    /\ tasks[k].pc = "query"
    /\ LET sp == tasks[k].samplePoints
           q == queryFor(sp[tasks[k].sampleIdx + 1])
           f == addQuery(factors, findNearby(reports, q.coordinates, q.maxDistance))
       IN  /\ factors' = f
           /\ tasks' = [tasks EXCEPT ![k] =
                IF tasks[k].sampleIdx + 1 < Len(sp)
                THEN queryingTask(sp, tasks[k].sampleIdx + 1, f)
                ELSE scoredTask(k - 1, sp, finish(f), routes, request.userId)]
    /\ UNCHANGED <<reports, pc, polyline, routePoints, samplePoints, sampleIdx, queries,
                   results, score, calcPc, request, routes, routeDocs, response, otherVars>>

\* Tasks go on after the handler has answered: a rejected Promise.all does not
\* stop the callbacks that are still pending.
\* a findNearby of callback k resolves; after the last one the callback goes on
\* to routeDoc.save()
TaskQuery(k) ==
    /\ calcPc # "idle"
    /\ k \in 1..Len(tasks)
    /\ tasks[k].pc = "query"
    /\ LET sp == tasks[k].samplePoints
           q == queryFor(sp[tasks[k].sampleIdx + 1])
           f == addQuery(tasks[k].factors,
                         findNearby(reports, q.coordinates, q.maxDistance))
       IN  tasks' = [tasks EXCEPT ![k] =
                IF tasks[k].sampleIdx + 1 < Len(sp)
                THEN queryingTask(sp, tasks[k].sampleIdx + 1, f)
                ELSE scoredTask(k - 1, sp, finish(f), routes, request.userId)]
    /\ UNCHANGED <<reports, scoreVars, calcPc, request, routes, routeDocs, response, otherVars>>

\* routeDoc.save() of callback k resolves and the callback returns; when it is
\* the last one, Promise.all resolves and the handler sorts and answers
TaskSave(k) ==
    /\ calcPc # "idle"
    /\ k \in 1..Len(tasks)
    /\ tasks[k].pc = "save"
    /\ routeDocs' = Append(routeDocs, tasks[k].routeDoc)
    /\ tasks' = [tasks EXCEPT ![k].pc = "returned"]
    /\ IF calcPc = "scoring" /\ \A j \in 1..Len(tasks) : tasks'[j].pc = "returned"
       THEN /\ response' =
                [status |-> 200,
                 routes |-> sortRoutes([j \in 1..Len(tasks) |-> processedRoute(tasks'[j])],
                                       <<>>, request.routePreference)]
            /\ calcPc' = "responded"
       ELSE UNCHANGED <<response, calcPc>>
    /\ UNCHANGED <<reports, scoreVars, request, routes, otherVars>>

\* routes.js:125-128: the first rejection rejects Promise.all and the handler
\* answers 500; later rejections find the request answered
answerRejection ==
    IF calcPc = "scoring"
    THEN /\ response' = [status |-> 500, routes |-> <<>>]
         /\ calcPc' = "responded"
    ELSE UNCHANGED <<response, calcPc>>

\* variant: the rejection caught inside the loop and read as "no reports"
TaskQueryFail_Swallowed(k) ==
    /\ calcPc # "idle"
    /\ k \in 1..Len(tasks)
    /\ tasks[k].pc = "query"
    /\ LET sp == tasks[k].samplePoints
           next == IF tasks[k].sampleIdx + 1 < Len(sp)
                   THEN queryingTask(sp, tasks[k].sampleIdx + 1, tasks[k].factors)
                   ELSE scoredTask(k - 1, sp, finish(tasks[k].factors), routes, request.userId)
       IN  tasks' = [tasks EXCEPT ![k] = [next EXCEPT !.rejected = 1]]
    /\ UNCHANGED <<reports, scoreVars, calcPc, request, routes, routeDocs, response, otherVars>>

\* a findNearby of callback k rejects: calculateRouteSafetyScore has no catch,
\* the await at routes.js:43 rethrows and the callback's promise rejects
TaskQueryFail(k) ==
    /\ calcPc # "idle"
    /\ k \in 1..Len(tasks)
    /\ tasks[k].pc = "query"
    /\ tasks' = [tasks EXCEPT ![k].pc = "rejected", ![k].rejected = 1]
    /\ answerRejection
    /\ UNCHANGED <<reports, scoreVars, request, routes, routeDocs, otherVars>>

\* variant: a failed save removes what the siblings have stored
TaskSaveFail_Rollback(k) ==
    /\ calcPc # "idle"
    /\ k \in 1..Len(tasks)
    /\ tasks[k].pc = "save"
    /\ tasks' = [tasks EXCEPT ![k].pc = "rejected"]
    /\ routeDocs' = <<>>
    /\ answerRejection
    /\ UNCHANGED <<reports, scoreVars, request, routes, otherVars>>

\* routeDoc.save() of callback k rejects: nothing is stored for it
TaskSaveFail(k) ==
    /\ calcPc # "idle"
    /\ k \in 1..Len(tasks)
    /\ tasks[k].pc = "save"
    /\ tasks' = [tasks EXCEPT ![k].pc = "rejected"]
    /\ answerRejection
    /\ UNCHANGED <<reports, scoreVars, request, routes, routeDocs, otherVars>>

InitCalc ==
    /\ reports \in CalcStores
    /\ ScoreIdle
    /\ CalcIdle
    /\ OtherIdle

NextCalc ==
    \/ \E u \in Users, p \in Preferences, rs \in RouteLists : CalcStart(u, p, rs)
    \/ \E k \in 1..MaxAlts : TaskQuery(k)
    \/ \E k \in 1..MaxAlts : TaskSave(k)
    \/ \E k \in 1..MaxAlts : TaskQueryFail(k)
    \/ \E k \in 1..MaxAlts : TaskSaveFail(k)

SpecCalc == InitCalc /\ [][NextCalc]_vars

(***************************************************************************)
(* GET /:routeId, POST /:routeId/save and POST /:routeId/feedback          *)
(* (routes.js:131-214), each one query or one findOneAndUpdate on the      *)
(* Route collection filtered by _id and by the userId of the token.        *)
(***************************************************************************)
Accounts == {"u1", "u2"}

\* request bodies of POST /:routeId/feedback
FeedbackBodies ==
    { [rating |-> 5, comment |-> "fine", feltSafe |-> TRUE],
      [rating |-> 1, comment |-> "dark", feltSafe |-> FALSE] }

\* values of new Date() at the feedback requests
Times == {1, 2}

\* positions of the documents an {_id, userId} filter matches
matching(routeId, userId) ==
    {i \in 1..Len(routeDocs) : routeDocs[i]._id = routeId /\ routeDocs[i].userId = userId}

notFound(op, routeId, userId) ==
    [op |-> op, routeId |-> routeId, userId |-> userId, status |-> 404,
     error |-> "Route not found", body |-> <<>>]

found(op, routeId, userId, body) ==
    [op |-> op, routeId |-> routeId, userId |-> userId, status |-> 200,
     error |-> "", body |-> body]

GetRoute(routeId, userId) ==
    /\ LET hit == matching(routeId, userId)
       IN  reply' = IF hit = {} THEN notFound("get", routeId, userId)
                    ELSE found("get", routeId, userId, <<routeDocs[CHOOSE i \in hit : TRUE]>>)
    /\ UNCHANGED <<reports, scoreVars, calcVars, called, returned, posts, events, dec>>

\* variant: the document looked up by _id alone
SaveRoute_AnyUser(routeId, userId) ==
    /\ LET hit == {i \in 1..Len(routeDocs) : routeDocs[i]._id = routeId}
       IN  IF hit = {}
           THEN /\ reply' = notFound("save", routeId, userId)
                /\ UNCHANGED routeDocs
           ELSE /\ reply' = found("save", routeId, userId, <<>>)
                /\ routeDocs' = [routeDocs EXCEPT ![CHOOSE i \in hit : TRUE].isSaved = TRUE]
    /\ UNCHANGED <<reports, scoreVars, calcPc, request, routes, tasks, response,
                   called, returned, posts, events, dec>>

SaveRoute(routeId, userId) ==
    /\ LET hit == matching(routeId, userId)
       IN  IF hit = {}
           THEN /\ reply' = notFound("save", routeId, userId)
                /\ UNCHANGED routeDocs
           ELSE /\ reply' = found("save", routeId, userId, <<>>)
                /\ routeDocs' = [routeDocs EXCEPT ![CHOOSE i \in hit : TRUE].isSaved = TRUE]
    /\ UNCHANGED <<reports, scoreVars, calcPc, request, routes, tasks, response,
                   called, returned, posts, events, dec>>

\* variant: the update replaces the document instead of setting three paths,
\* the paths it does not name falling back to the schema defaults
SubmitFeedback_Replace(routeId, userId, body, now) ==
    /\ LET hit == matching(routeId, userId)
       IN  IF hit = {}
           THEN /\ reply' = notFound("feedback", routeId, userId)
                /\ UNCHANGED routeDocs
           ELSE /\ reply' = found("feedback", routeId, userId, <<>>)
                /\ routeDocs' = [routeDocs EXCEPT ![CHOOSE i \in hit : TRUE] =
                        [@ EXCEPT !.feedback = body, !.isCompleted = TRUE,
                                  !.completedAt = now, !.isSaved = FALSE,
                                  !.tags = <<>>,
                                  !.safetyScore = [overall |-> 50,
                                                   factors |-> [key \in DOMAIN priors |-> 5 * Scale]]]]
    /\ UNCHANGED <<reports, scoreVars, calcPc, request, routes, tasks, response,
                   called, returned, posts, events, dec>>

SubmitFeedback(routeId, userId, body, now) ==
    /\ LET hit == matching(routeId, userId)
       IN  IF hit = {}
           THEN /\ reply' = notFound("feedback", routeId, userId)
                /\ UNCHANGED routeDocs
           ELSE /\ reply' = found("feedback", routeId, userId, <<>>)
                /\ routeDocs' = [routeDocs EXCEPT ![CHOOSE i \in hit : TRUE] =
                        [@ EXCEPT !.feedback = body, !.isCompleted = TRUE,
                                  !.completedAt = now]]
    /\ UNCHANGED <<reports, scoreVars, calcPc, request, routes, tasks, response,
                   called, returned, posts, events, dec>>

\* one calculate request of either account for up to two alternatives, and
\* record requests of both accounts at any time
RecordRouteLists == {rs \in RouteLists : Len(rs) <= 2}

NextRecords ==
    \/ \E u \in Accounts, rs \in RecordRouteLists : CalcStart(u, "safest", rs)
    \/ \E k \in 1..MaxAlts : TaskQuery(k)
    \/ \E k \in 1..MaxAlts : TaskSave(k)
    \/ \E id \in 1..MaxAlts, u \in Accounts : GetRoute(id, u)
    \/ \E id \in 1..MaxAlts, u \in Accounts : SaveRoute(id, u)
    \/ \E id \in 1..MaxAlts, u \in Accounts, body \in FeedbackBodies, now \in Times :
          SubmitFeedback(id, u, body, now)

SpecRecords == Init /\ [][NextRecords]_vars

(***************************************************************************)
(* The helper functions of routes.js applied on their own: decodePolyline, *)
(* generateRouteTags, the route type assignment of the map callback and    *)
(* the preference sort.  None of them contains a throw statement, and      *)
(* charCodeAt, the bit operators and the arithmetic do not throw: every    *)
(* application returns a value.                                            *)
(***************************************************************************)
\* "_p~iF~ps|U_ulLnnqC_mqNvxq`@"
ReferencePolyline ==
    <<95, 112, 126, 105, 70, 126, 112, 115, 124, 85, 95, 117, 108, 76,
      110, 110, 113, 67, 95, 109, 113, 78, 118, 120, 113, 96, 64>>

\* "?@~A_@" : deltas 0, +1 ; -32, +16, a two-character group in each point
SmallPolyline == <<63, 65, 126, 65, 95, 64>>

PrefixesOf(str) == {SubSeq(str, 1, n) : n \in 0..Len(str)}

\* whole strings and strings cut at every position
EncodedStrings ==
    PrefixesOf(ReferencePolyline) \cup PrefixesOf(SmallPolyline)
        \cup PrefixesOf(Repeat(PointGroup, 3))

\* factor values at, just below and away from the tag thresholds
TagLevels == {0, 6 * Scale - 1, 6 * Scale, 7 * Scale - 1, 7 * Scale}

TagScores ==
    { [overall |-> 68,
       factors |-> [lighting |-> l, policePresence |-> p, crimeRate |-> 7 * Scale,
                    pedestrianTraffic |-> t, roadCondition |-> r,
                    communityReports |-> 8 * Scale]] :
      l \in TagLevels, p \in TagLevels, t \in TagLevels, r \in TagLevels }

\* overall scores (tenths) around the safest threshold
ClassOveralls == {68, 79, 80, 100}
ClassDurations == {500, 600}

ClassInputs ==
    UNION { { [routes |-> [k \in 1..n |-> [overview_polyline |-> <<>>, duration |-> ds[k]]],
               scores |-> [k \in 1..n |-> [overall |-> os[k], factors |-> priors]]] :
              ds \in [1..n -> ClassDurations], os \in [1..n -> ClassOveralls] } :
            n \in 1..MaxAlts }

\* routes.js:39-48: the route type of every alternative of one request
classify(rs, scores) ==
    [k \in 1..Len(rs) |-> routeTypeOf(k - 1, scores[k], rs[k].duration, rs)]

SortOveralls == {50, 68, 100}
SortDurations == {500, 600}

\* processedRoutes as Promise.all delivers them: routeId is the position
SortInputs ==
    UNION { { [k \in 1..n |-> [routeId |-> k,
                               duration |-> [seconds |-> ds[k]],
                               safetyScore |-> os[k]]] :
              ds \in [1..n -> SortDurations], os \in [1..n -> SortOveralls] } :
            n \in 1..MaxAlts }

CallDecodePolyline(encoded) ==
    /\ called.function = ""
    /\ called' = [function |-> "decodePolyline", argument |-> encoded]
    /\ returned' = [error |-> "", value |-> decodePolyline(encoded)]
    /\ UNCHANGED <<reports, scoreVars, calcVars, reply, posts, events, dec>>

CallGenerateRouteTags(safetyScore) ==
    /\ called.function = ""
    /\ called' = [function |-> "generateRouteTags", argument |-> safetyScore]
    /\ returned' = [error |-> "", value |-> generateRouteTags(safetyScore)]
    /\ UNCHANGED <<reports, scoreVars, calcVars, reply, posts, events, dec>>

CallClassify(input) ==
    /\ called.function = ""
    /\ called' = [function |-> "classify", argument |-> input]
    /\ returned' = [error |-> "", value |-> classify(input.routes, input.scores)]
    /\ UNCHANGED <<reports, scoreVars, calcVars, reply, posts, events, dec>>

CallSort(processedRoutes, routePreference) ==
    /\ called.function = ""
    /\ called' = [function |-> "sort",
                  argument |-> [processedRoutes |-> processedRoutes,
                                routePreference |-> routePreference]]
    /\ returned' = [error |-> "",
                    value |-> sortRoutes(processedRoutes, <<>>, routePreference)]
    /\ UNCHANGED <<reports, scoreVars, calcVars, reply, posts, events, dec>>

NextFn ==
    \/ \E encoded \in EncodedStrings : CallDecodePolyline(encoded)
    \/ \E safetyScore \in TagScores : CallGenerateRouteTags(safetyScore)
    \/ \E input \in ClassInputs : CallClassify(input)
    \/ \E list \in SortInputs, p \in Preferences : CallSort(list, p)

SpecFn == Init /\ [][NextFn]_vars

(***************************************************************************)
(* decodePolyline (routes.js:285-313) followed statement by statement: the *)
(* test of the outer while, and one iteration of a do ... while at a time. *)
(* dec.pc is "outer" at the test of the while, "lat" and "lng" inside the  *)
(* first and the second do ... while, "done" after the return.  The inputs *)
(* have groups of at most six characters, so that the shifted value stays  *)
(* below 2^31.                                                             *)
(***************************************************************************)
\* "~~~" : continuation characters only, the string ends inside its first group
OpenGroup == <<126, 126, 126>>

DecodeInputs == EncodedStrings \cup PrefixesOf(OpenGroup)

DecodeBegin(encoded) ==
    /\ dec.pc = "idle"
    /\ dec' = [NoDecode EXCEPT !.pc = "outer", !.encoded = encoded]
    /\ UNCHANGED <<reports, scoreVars, calcVars, reply, called, returned, posts, events>>

\* routes.js:289-290 and 312
DecodeOuter ==
    /\ dec.pc = "outer"
    /\ dec' = IF dec.index < Len(dec.encoded)
              THEN [dec EXCEPT !.pc = "lat", !.shift = 0, !.result = 0]
              ELSE [dec EXCEPT !.pc = "done"]
    /\ UNCHANGED <<reports, scoreVars, calcVars, reply, called, returned, posts, events>>

\* variant: the index is advanced only while it is inside the string
DecodeRead_StopsAtEnd ==
    /\ dec.pc \in {"lat", "lng"}
    /\ LET nan == isNaNAt(dec.encoded, dec.index)
           b == IF nan THEN 0 ELSE charCodeAt(dec.encoded, dec.index) - 63
           low == IF nan THEN 0 ELSE b % 32
           r == dec.result + low * (2 ^ dec.shift)
           index == IF nan THEN dec.index ELSE dec.index + 1
       IN  dec' =
             IF ~nan /\ b >= 32
             THEN [dec EXCEPT !.index = index, !.result = r, !.shift = @ + 5]
             ELSE IF dec.pc = "lat"
             THEN [dec EXCEPT !.index = index, !.lat = @ + zigzag(r),
                              !.pc = "lng", !.shift = 0, !.result = 0]
             ELSE [dec EXCEPT !.index = index, !.lng = @ + zigzag(r),
                              !.pc = "outer", !.shift = 0, !.result = 0,
                              !.points = Append(@, [lat |-> dec.lat,
                                                    lng |-> dec.lng + zigzag(r)])]
    /\ UNCHANGED <<reports, scoreVars, calcVars, reply, called, returned, posts, events>>

\* one iteration of routes.js:291-295 or 301-305 and, when the loop is left,
\* the statements up to the next loop test (296-300 or 306-309)
DecodeRead ==
    /\ dec.pc \in {"lat", "lng"}
    /\ LET nan == isNaNAt(dec.encoded, dec.index)
           b == IF nan THEN 0 ELSE charCodeAt(dec.encoded, dec.index) - 63
           low == IF nan THEN 0 ELSE b % 32
           r == dec.result + low * (2 ^ dec.shift)
       IN  dec' =
             IF ~nan /\ b >= 32
             THEN [dec EXCEPT !.index = @ + 1, !.result = r, !.shift = @ + 5]
             ELSE IF dec.pc = "lat"
             THEN [dec EXCEPT !.index = @ + 1, !.lat = @ + zigzag(r),
                              !.pc = "lng", !.shift = 0, !.result = 0]
             ELSE [dec EXCEPT !.index = @ + 1, !.lng = @ + zigzag(r),
                              !.pc = "outer", !.shift = 0, !.result = 0,
                              !.points = Append(@, [lat |-> dec.lat,
                                                    lng |-> dec.lng + zigzag(r)])]
    /\ UNCHANGED <<reports, scoreVars, calcVars, reply, called, returned, posts, events>>

NextDecode ==
    \/ \E encoded \in DecodeInputs : DecodeBegin(encoded)
    \/ DecodeOuter
    \/ DecodeRead

SpecDecode == Init /\ [][NextDecode]_vars

\* a call that has begun runs on: nothing in the function waits
FairDecode == SpecDecode /\ WF_vars(DecodeOuter) /\ WF_vars(DecodeRead)

(***************************************************************************)
(* POST /reports/:reportId/vote (reports.js:154-200), one request after    *)
(* another: each request runs from its findById to its answer before the   *)
(* next one starts.  votes is the subdocument of the schema: the counter   *)
(* helpful and the list users of {userId, vote}.                           *)
(***************************************************************************)
Voters == {"u1", "u2", "u3"}

\* values of req.body.vote; "" is a body without vote
VoteValues == {"helpful", "not-helpful", "unhelpful", ""}

\* one stored report without votes
VoteStores ==
    { <<newReport(1, body)>> : body \in {b \in ReportBodies : b.reportType = "Other"} }

\* values of req.params.reportId: the stored report and an unknown one
VoteReportIds == {1, 2}

\* report.votes.users.find(v => v.userId.toString() === userId): the position
\* of the first entry of the user, 0 when there is none
existingVote(users, userId) ==
    IF \E i \in 1..Len(users) : users[i].userId = userId
    THEN CHOOSE i \in 1..Len(users) :
             /\ users[i].userId = userId
             /\ \A j \in 1..(i - 1) : users[j].userId # userId
    ELSE 0

\* variant: the counter is raised by every helpful vote, repeated ones too
castVote_CountsRepeats(votes, userId, vote) ==
    LET i == existingVote(votes.users, userId)
    IN  IF i # 0
        THEN [helpful |-> IF votes.users[i].vote = "helpful" /\ vote = "not-helpful"
                          THEN votes.helpful - 1
                          ELSE IF vote = "helpful"
                          THEN votes.helpful + 1
                          ELSE votes.helpful,
              users |-> [votes.users EXCEPT ![i].vote = vote]]
        ELSE [helpful |-> IF vote = "helpful" THEN votes.helpful + 1 ELSE votes.helpful,
              users |-> Append(votes.users, [userId |-> userId, vote |-> vote])]

\* reports.js:168-188: the votes subdocument after the vote of userId
castVote(votes, userId, vote) ==
    LET i == existingVote(votes.users, userId)
    IN  IF i # 0
        THEN [helpful |-> IF votes.users[i].vote = "helpful" /\ vote = "not-helpful"
                          THEN votes.helpful - 1
                          ELSE IF votes.users[i].vote = "not-helpful" /\ vote = "helpful"
                          THEN votes.helpful + 1
                          ELSE votes.helpful,
              users |-> [votes.users EXCEPT ![i].vote = vote]]
        ELSE [helpful |-> IF vote = "helpful" THEN votes.helpful + 1 ELSE votes.helpful,
              users |-> Append(votes.users, [userId |-> userId, vote |-> vote])]

voteReply(reportId, userId, vote, existing, status, error, body) ==
    [op |-> "vote", reportId |-> reportId, userId |-> userId, vote |-> vote,
     existing |-> existing, status |-> status, error |-> error, body |-> body]

\* the whole request with report.save() resolving; existing is the vote the
\* user had on the report when the request came, "" when none
Vote(reportId, userId, vote) ==
    /\ IF vote \notin {"helpful", "not-helpful"}
       THEN /\ reply' = voteReply(reportId, userId, vote, "", 400, "Invalid vote type", <<>>)
            /\ UNCHANGED reports
       ELSE IF reportId \notin 1..Len(reports)
       THEN /\ reply' = voteReply(reportId, userId, vote, "", 404, "Report not found", <<>>)
            /\ UNCHANGED reports
       ELSE LET report == reports[reportId]
                i == existingVote(report.votes.users, userId)
                votes == castVote(report.votes, userId, vote)
            IN  /\ reports' = [reports EXCEPT ![reportId].votes = votes]
                /\ reply' = voteReply(reportId, userId, vote,
                                      IF i = 0 THEN "" ELSE report.votes.users[i].vote,
                                      200, "", [helpfulCount |-> votes.helpful])
    /\ UNCHANGED <<scoreVars, calcVars, called, returned, posts, events, dec>>

\* findById or report.save() rejects: the catch answers 500, the changes made
\* to the loaded document are not stored
VoteFail(reportId, userId, vote) ==
    /\ vote \in {"helpful", "not-helpful"}
    /\ reply' = voteReply(reportId, userId, vote, "", 500, "Failed to record vote", <<>>)
    /\ UNCHANGED <<reports, scoreVars, calcVars, called, returned, posts, events, dec>>

InitVotes ==
    /\ reports \in VoteStores
    /\ ScoreIdle
    /\ CalcIdle
    /\ OtherIdle

NextVotes ==
    \/ \E reportId \in VoteReportIds, userId \in Voters, vote \in VoteValues :
          Vote(reportId, userId, vote)
    \/ \E reportId \in VoteReportIds, userId \in Voters, vote \in VoteValues :
          VoteFail(reportId, userId, vote)

SpecVotes == InitVotes /\ [][NextVotes]_vars

(***************************************************************************)
(* POST /reports (reports.js:8-62) followed across its await: the request  *)
(* is validated and the document built, report.save() resolves or rejects, *)
(* and the continuation emits the event and answers.  Requests of several  *)
(* clients interleave at the await.  The location of a body is a sequence  *)
(* of zero or one records, <<>> for a body without location.               *)
(***************************************************************************)
MaxPosts == 3

\* request bodies: valid ones, one without severity, and ones that fail the
\* handler's validation (no description, no location, no reportType) or the
\* schema's (a reportType outside the enum, a location without address)
PostBodies ==
    { [b EXCEPT !.location = <<b.location>>] :
      b \in {c \in ReportBodies : c.reportType \in {"Other", "Harassment"}} }
    \cup
    { [reportType |-> "Road Hazard", severity |-> "", description |-> "d",
       location |-> <<[lng |-> 0, lat |-> 0, address |-> "a"]>>],
      [reportType |-> "Other", severity |-> "low", description |-> "",
       location |-> <<[lng |-> 0, lat |-> 0, address |-> "a"]>>],
      [reportType |-> "Other", severity |-> "low", description |-> "d",
       location |-> <<>>],
      [reportType |-> "", severity |-> "low", description |-> "d",
       location |-> <<[lng |-> 0, lat |-> 0, address |-> "a"]>>],
      [reportType |-> "Flood", severity |-> "low", description |-> "d",
       location |-> <<[lng |-> 0, lat |-> 0, address |-> "a"]>>],
      [reportType |-> "Unsafe Area", severity |-> "high", description |-> "d",
       location |-> <<[lng |-> 0, lat |-> 0, address |-> ""]>>] }

\* reports.js:20: !reportType || !location || !description
missingFields(body) ==
    body.reportType = "" \/ body.location = <<>> \/ body.description = ""

\* the schema's validators at save: enum of reportType and of severity,
\* location.address required
schemaAccepts(body) ==
    /\ body.reportType \in ReportTypes
    /\ body.severity \in Severities \cup {""}
    /\ body.location[1].address # ""

\* variant: the event is emitted before report.save() is awaited
PostReport_EmitsFirst(body) ==
    /\ Len(posts) < MaxPosts
    /\ IF missingFields(body)
       THEN /\ posts' = Append(posts, [body |-> body, pc |-> "answered",
                                       status |-> 400, reportId |-> 0])
            /\ UNCHANGED events
       ELSE /\ posts' = Append(posts, [body |-> body, pc |-> "saving",
                                       status |-> 0, reportId |-> 0])
            /\ events' = Append(events,
                    eventOf(newReport(Len(reports) + 1,
                                      [body EXCEPT !.location = body.location[1]])))
    /\ UNCHANGED <<reports, scoreVars, calcVars, reply, called, returned, dec>>

\* reports.js:10-41: up to the await of report.save()
PostReport(body) ==
    /\ Len(posts) < MaxPosts
    /\ IF missingFields(body)
       THEN posts' = Append(posts, [body |-> body, pc |-> "answered",
                                    status |-> 400, reportId |-> 0])
       ELSE posts' = Append(posts, [body |-> body, pc |-> "saving",
                                    status |-> 0, reportId |-> 0])
    /\ UNCHANGED <<reports, scoreVars, calcVars, reply, called, returned, events, dec>>

\* report.save() of request i stores the document; the handler has not resumed
ReportPersist(i) ==
    /\ i \in 1..Len(posts)
    /\ posts[i].pc = "saving"
    /\ schemaAccepts(posts[i].body)
    /\ LET body == posts[i].body
           report == newReport(Len(reports) + 1, [body EXCEPT !.location = body.location[1]])
       IN  /\ reports' = Append(reports, report)
           /\ posts' = [posts EXCEPT ![i].pc = "saved", ![i].reportId = report._id]
    /\ UNCHANGED <<scoreVars, calcVars, reply, called, returned, events, dec>>

\* reports.js:43-57: the handler resumes, emits the event and answers 201
ReportAnswer(i) ==
    /\ i \in 1..Len(posts)
    /\ posts[i].pc = "saved"
    /\ events' = Append(events, eventOf(reports[posts[i].reportId]))
    /\ posts' = [posts EXCEPT ![i].pc = "answered", ![i].status = 201]
    /\ UNCHANGED <<reports, scoreVars, calcVars, reply, called, returned, dec>>

\* report.save() of request i rejects, by a validator of the schema or by
\* the database: the catch at reports.js:58-61 answers 500
ReportSaveFail(i) ==
    /\ i \in 1..Len(posts)
    /\ posts[i].pc = "saving"
    /\ posts' = [posts EXCEPT ![i].pc = "answered", ![i].status = 500]
    /\ UNCHANGED <<reports, scoreVars, calcVars, reply, called, returned, events, dec>>

NextReports ==
    \/ \E body \in PostBodies : PostReport(body)
    \/ \E i \in 1..MaxPosts : ReportPersist(i)
    \/ \E i \in 1..MaxPosts : ReportAnswer(i)
    \/ \E i \in 1..MaxPosts : ReportSaveFail(i)

SpecReports == Init /\ [][NextReports]_vars

(***************************************************************************)
(* Helpers of the properties.                                              *)
(***************************************************************************)
Done == pc = "done"

Baseline ==
    [lighting |-> 7 * Scale, policePresence |-> 6 * Scale, crimeRate |-> 7 * Scale,
     pedestrianTraffic |-> 6 * Scale, roadCondition |-> 7 * Scale,
     communityReports |-> 8 * Scale]

\* 100 * Scale * (0.20 l + 0.20 p + 0.25 c + 0.15 t + 0.10 r + 0.10 m)
WeightedTotal(f) ==
    20 * f.lighting + 20 * f.policePresence + 25 * f.crimeRate
        + 15 * f.pedestrianTraffic + 10 * f.roadCondition + 10 * f.communityReports

\* tenths is the weighted total rounded to one decimal place, ties upward
IsRoundedTenths(tenths, f) ==
    /\ 2 * WeightedTotal(f) - 10 * Scale < 20 * Scale * tenths
    /\ 20 * Scale * tenths <= 2 * WeightedTotal(f) + 10 * Scale

ImpactsOf(q) == [k \in 1..Len(q) |-> calculateSafetyImpact(q[k])]

\* arithmetic mean of the impacts of one query result, in factor units
MeanImpact(q) == (Unit * SumSeq(ImpactsOf(q))) \div Len(q)

RECURSIVE SumOfMeans(_)
SumOfMeans(rs) ==
    IF rs = <<>> THEN 0
    ELSE (IF Head(rs) = <<>> THEN 0 ELSE MeanImpact(Head(rs))) + SumOfMeans(Tail(rs))

\* the accumulation loop of calculateRouteSafetyScore over given query results
RECURSIVE accumulate(_, _)
accumulate(f, rs) ==
    IF rs = <<>> THEN f ELSE accumulate(addQuery(f, Head(rs)), Tail(rs))

PermsOfSeq(q) ==
    IF q = <<>> THEN {<<>>}
    ELSE {[i \in 1..Len(q) |-> q[p[i]]] : p \in Permutations(1..Len(q))}

RECURSIVE Product(_)
Product(ss) ==
    IF ss = <<>> THEN {<<>>}
    ELSE {<<h>> \o t : h \in Head(ss), t \in Product(Tail(ss))}

\* every order of the sample points combined with every order inside each result
Reorderings(rs) ==
    UNION {Product([i \in 1..Len(o) |-> PermsOfSeq(o[i])]) : o \in PermsOfSeq(rs)}

Eligible(r, coordinates) ==
    /\ r.status \in {"pending", "verified"}
    /\ DistanceMetres(r.coordinates, coordinates) <= 500

(***************************************************************************)
(* C1: every one of the six factors of a returned SafetyScore lies in      *)
(* [0, 10], whatever the proximity queries returned.                       *)
(***************************************************************************)
C1_FactorsInRange ==
    Done =>
        /\ DOMAIN score.factors = {FactorNames[i] : i \in 1..6}
        /\ \A key \in DOMAIN score.factors :
              0 <= score.factors[key] /\ score.factors[key] <= 10 * Scale

\* a score whose communityReports accumulator had gone below 0
C1_Witness ==
    /\ Done
    /\ factors.communityReports < 0
    /\ score.factors.communityReports = 0

(***************************************************************************)
(* C2: the returned overall is the weighted sum of the returned factors    *)
(* (0.20, 0.20, 0.25, 0.15, 0.10, 0.10) rounded to one decimal, and        *)
(* Route.calculateSafetyScore on a record holding the returned factors     *)
(* recomputes that overall.                                                *)
(***************************************************************************)
C2_OverallDerived ==
    Done =>
        /\ IsRoundedTenths(score.overall, score.factors)
        /\ Route_calculateSafetyScore([safetyScore |-> score]) = score.overall

\* a score with a fractional communityReports factor
C2_Witness ==
    /\ Done
    /\ results # <<>>
    /\ score.factors.communityReports % Scale # 0

(***************************************************************************)
(* C3 as stated: a route whose proximity queries all return zero reports   *)
(* is scored overall 6.85 with the factors at the priors 7, 6, 7, 6, 7, 8. *)
(***************************************************************************)
AllQueriesEmpty == \A i \in 1..Len(results) : results[i] = <<>>

C3_Original ==
    (Done /\ AllQueriesEmpty) =>
        /\ 10 * score.overall = 685
        /\ score.factors = Baseline

(***************************************************************************)
(* C3 amended: a route whose proximity queries all return zero reports is  *)
(* scored overall 6.8 (6.75 rounded to one decimal) with the factors at    *)
(* the priors 7, 6, 7, 6, 7, 8.                                            *)
(***************************************************************************)
C3_Amended ==
    (Done /\ AllQueriesEmpty) =>
        /\ score.overall = 68
        /\ score.factors = Baseline

\* three queries resolved with nothing, although the store holds reports
C3_Witness ==
    /\ Done
    /\ Len(results) = 3
    /\ AllQueriesEmpty
    /\ reports # <<>>

(***************************************************************************)
(* C4: before clamping, communityReports is 8 plus the sum, over the       *)
(* sample points whose query returned reports, of the mean impact of that  *)
(* query's reports; empty results add nothing and no other factor moves.   *)
(***************************************************************************)
C4_MeanPerSample ==
    /\ factors.communityReports = 8 * Scale + SumOfMeans(results)
    /\ \A key \in DOMAIN factors :
          key # "communityReports" => factors[key] = Baseline[key]

\* two samples contributed, one of them with two reports of different impact
C4_Witness ==
    /\ Done
    /\ \E i, j \in 1..Len(results) :
          /\ i # j
          /\ Len(results[i]) = 2
          /\ results[i][1] # results[i][2]
          /\ Len(results[j]) = 1
    /\ \E i \in 1..Len(results) : results[i] = <<>>

C6_OnlyEligibleContribute ==
    [][ IF pc = "query" /\ sampleIdx' = sampleIdx + 1
        THEN LET at == queries[sampleIdx + 1].coordinates
                 Counts(r) == Eligible(r, at)
                 counted == SelectSeq(reports, Counts)
             IN  /\ factors'.communityReports =
                        factors.communityReports
                            + (IF counted = <<>> THEN 0 ELSE MeanImpact(counted))
                 /\ Len(results') = Len(results) + 1
                 /\ Len(results'[Len(results')]) = Len(counted)
        ELSE factors' = factors ]_vars

\* the last query ran while a resolved or dismissed report lay within 500 m of
\* its sample point and a pending report lay farther away: it returned nothing
C6_Witness ==
    /\ Done
    /\ queries # <<>>
    /\ LET at == queries[Len(queries)].coordinates
       IN  /\ \E i \in 1..Len(reports) :
                 /\ reports[i].status \in {"resolved", "dismissed"}
                 /\ DistanceMetres(reports[i].coordinates, at) <= 500
           /\ \E i \in 1..Len(reports) :
                 /\ reports[i].status = "pending"
                 /\ DistanceMetres(reports[i].coordinates, at) > 500
           /\ results[Len(results)] = <<>>

(***************************************************************************)
(* C7: calculateSafetyImpact is severityWeight * typeWeight and lies in    *)
(* [-15.0, -0.5] for all 4 severities and 8 types; so communityReports     *)
(* never exceeds its prior 8 and the returned overall never exceeds the    *)
(* overall the same route gets with no reports.                            *)
(***************************************************************************)
C7_ImpactNegative ==
    /\ \A sev \in Severities, type \in ReportTypes :
          LET impact == calculateSafetyImpact([severity |-> sev, reportType |-> type])
          IN  /\ impact = severityWeights[sev] * typeWeights[type]
              /\ -1500 <= impact /\ impact <= -50
    /\ Cardinality(Severities) = 4 /\ Cardinality(ReportTypes) = 8
    /\ factors.communityReports <= 8 * Scale
    /\ Done =>
          /\ score.factors.communityReports <= 8 * Scale
          /\ score.overall <=
                finish(accumulate(priors, [i \in 1..Len(results) |-> <<>>])).overall

\* reports lowered both the factor and the overall
C7_Witness ==
    /\ Done
    /\ score.factors.communityReports < 8 * Scale
    /\ score.overall < 68

(***************************************************************************)
(* C8: scoring the empty polyline decodes to no point, issues no proximity *)
(* query and returns the baseline factors 7, 6, 7, 6, 7, 8 with their      *)
(* weighted overall.                                                       *)
(***************************************************************************)
C8_EmptyPolyline ==
    (pc # "idle" /\ polyline = <<>>) =>
        /\ routePoints = <<>>
        /\ Done
        /\ queries = <<>> /\ results = <<>>
        /\ score.factors = Baseline
        /\ IsRoundedTenths(score.overall, Baseline)

\* the empty polyline scored against a store holding a pending report
C8_Witness ==
    /\ Done
    /\ polyline = <<>>
    /\ \E i \in 1..Len(reports) : reports[i].status = "pending"

(***************************************************************************)
(* C9: scoring a route of n decoded points issues, in index order, exactly *)
(* one query of radius 500 for each point whose index is a multiple of 10  *)
(* and none for any other point: the first point is queried when n >= 1,   *)
(* the last only when n-1 is a multiple of 10, ceil(n/10) queries in all.  *)
(***************************************************************************)
QueryOfPoint(points, index) ==
    [coordinates |-> <<points[index + 1].lng, points[index + 1].lat>>,
     maxDistance |-> 500]

C9_OneQueryPerTenthPoint ==
    pc # "idle" =>
        LET points == routePoints
            n == Len(points)
            expected == [k \in 1..((n + 9) \div 10) |-> QueryOfPoint(points, 10 * (k - 1))]
        IN  \* the points are pairwise different: a query names its point
            /\ \A i \in 1..(n - 1) : points[i].lat < points[i + 1].lat
            /\ Len(queries) <= Len(expected)
            /\ \A k \in 1..Len(queries) : queries[k] = expected[k]
            /\ pc = "query" => Len(queries) = sampleIdx + 1
            /\ Done =>
                  /\ Len(queries) = (n + 9) \div 10
                  /\ n >= 1 => queries[1] = QueryOfPoint(points, 0)
                  /\ n >= 1 =>
                        ((\E k \in 1..Len(queries) : queries[k] = QueryOfPoint(points, n - 1))
                            <=> (n - 1) % 10 = 0)

\* 21 points: indices 0, 10 and 20 queried, the last point among them
C9_Witness ==
    /\ Done
    /\ Len(polyline) = 63
    /\ Len(queries) = 3
    /\ Len(routePoints) = 21
    /\ queries[3] = QueryOfPoint(routePoints, 20)

(***************************************************************************)
(* C10: within one calculate request an alternative is labelled fastest    *)
(* exactly when its duration equals the minimum duration of all the        *)
(* alternatives; every alternative tied on the minimum is labelled         *)
(* fastest, and fastest wins over safest (index 0 and overall >= 8.0).     *)
(***************************************************************************)
IsFastest(k) == \A j \in 1..Len(routes) : routes[k].duration <= routes[j].duration

C10_FastestIffMinimum ==
    /\ \A k \in 1..Len(tasks) :
          tasks[k].pc \in {"save", "returned"} =>
              /\ tasks[k].routeType = "fastest" <=> IsFastest(k)
              /\ tasks[k].routeDoc.routeType = tasks[k].routeType
    /\ calcPc = "responded" =>
          \A i \in 1..Len(response.routes) :
              response.routes[i].routeType = "fastest"
                  <=> IsFastest(response.routes[i].routeId)
    \* the classification of the request's routes had their overall been 8.0 or 10.0
    /\ \A k \in 1..Len(routes), overall \in {80, 100} :
          LET type == routeTypeOf(k - 1, [overall |-> overall, factors |-> Baseline],
                                  routes[k].duration, routes)
          IN  /\ type = "fastest" <=> IsFastest(k)
              /\ type = "safest" => k = 1 /\ ~IsFastest(k)

\* answered with two alternatives tied on the minimum, both labelled fastest,
\* the first of them at index 0, and a slower third one labelled otherwise
C10_Witness ==
    /\ calcPc = "responded"
    /\ Len(routes) = 3
    /\ routes[1].duration = routes[2].duration
    /\ routes[1] # routes[2]
    /\ routes[3].duration > routes[1].duration
    /\ tasks[1].routeType = "fastest"
    /\ tasks[2].routeType = "fastest"
    /\ tasks[3].routeType # "fastest"

(***************************************************************************)
(* C11: an alternative is labelled safest only if it is the alternative at *)
(* index 0 and its overall score is at least 8.0; an alternative that is   *)
(* neither safest nor fastest is labelled balanced, so every alternative   *)
(* carries exactly one of the three labels.                                *)
(***************************************************************************)
RouteTypes == {"safest", "fastest", "balanced"}

C11_SafestOnlyFirstAndHigh ==
    called.function = "classify" =>
        LET rs == called.argument.routes
            scores == called.argument.scores
            types == returned.value
        IN  /\ Len(types) = Len(rs)
            /\ \A k \in 1..Len(rs) :
                  /\ types[k] \in RouteTypes
                  /\ types[k] = "safest" => (k = 1 /\ scores[k].overall >= 80)
                  /\ types[k] \notin {"safest", "fastest"} => types[k] = "balanced"

\* the first alternative labelled safest while a later one with overall >= 8.0
\* is labelled balanced
C11_Witness ==
    /\ called.function = "classify"
    /\ Len(returned.value) >= 2
    /\ returned.value[1] = "safest"
    /\ \E k \in 2..Len(returned.value) :
          /\ called.argument.scores[k].overall >= 80
          /\ returned.value[k] = "balanced"

(***************************************************************************)
(* C12: for every FactorSet generateRouteTags returns a list that contains *)
(* Well-Lit iff lighting >= 7, Police Patrolled iff policePresence >= 7,   *)
(* High Traffic iff pedestrianTraffic >= 6 and Main Roads iff              *)
(* roadCondition >= 7, each decided independently of the others, with no   *)
(* duplicate and no other tag.                                             *)
(***************************************************************************)
RangeOf(seq) == {seq[i] : i \in 1..Len(seq)}

C12_TagsByThreshold ==
    called.function = "generateRouteTags" =>
        LET f == called.argument.factors
            tags == returned.value
        IN  /\ ("Well-Lit" \in RangeOf(tags)) <=> (f.lighting >= 7 * Scale)
            /\ ("Police Patrolled" \in RangeOf(tags)) <=> (f.policePresence >= 7 * Scale)
            /\ ("High Traffic" \in RangeOf(tags)) <=> (f.pedestrianTraffic >= 6 * Scale)
            /\ ("Main Roads" \in RangeOf(tags)) <=> (f.roadCondition >= 7 * Scale)
            /\ Cardinality(RangeOf(tags)) = Len(tags)
            /\ RangeOf(tags) \subseteq
                  {"Well-Lit", "Police Patrolled", "High Traffic", "Main Roads"}

\* Police Patrolled and Main Roads returned for a factor set whose lighting
\* and pedestrianTraffic lie just below their thresholds
C12_Witness ==
    /\ called.function = "generateRouteTags"
    /\ called.argument.factors.lighting = 7 * Scale - 1
    /\ called.argument.factors.pedestrianTraffic = 6 * Scale - 1
    /\ returned.value = <<"Police Patrolled", "Main Roads">>

(***************************************************************************)
(* C13: the sorted route list is a permutation of the scored alternatives, *)
(* ordered by the requested preference: safest, overall non-increasing;    *)
(* fastest, duration in seconds non-decreasing; balanced, the composite    *)
(* 0.6 * overall + 0.4 * 10000 / durationSeconds non-increasing.           *)
(***************************************************************************)
\* 100 * m * (0.6 * overall + 0.4 * 10000 / seconds), m a multiple of seconds
Blend(x, m) == 6 * x.safetyScore * m + 400000 * (m \div x.duration.seconds)

C13_OrderedByPreference ==
    called.function = "sort" =>
        LET input == called.argument.processedRoutes
            preference == called.argument.routePreference
            out == returned.value
        IN  /\ Len(out) = Len(input)
            /\ \A k \in 1..Len(input) :
                  Cardinality({i \in 1..Len(out) : out[i] = input[k]}) = 1
            /\ \A i, j \in 1..Len(out) :
                  i < j =>
                      LET m == out[i].duration.seconds * out[j].duration.seconds
                      IN  /\ out[i].duration.seconds > 0
                          /\ preference = "safest" =>
                                out[i].safetyScore >= out[j].safetyScore
                          /\ preference = "fastest" =>
                                out[i].duration.seconds <= out[j].duration.seconds
                          /\ preference = "balanced" => Blend(out[i], m) >= Blend(out[j], m)

\* balanced: a slower but much safer route first, then a faster route ahead of
\* a safer but slower one
C13_Witness ==
    /\ called.function = "sort"
    /\ called.argument.routePreference = "balanced"
    /\ Len(returned.value) = 3
    /\ returned.value[1].duration.seconds > returned.value[2].duration.seconds
    /\ returned.value[2].safetyScore < returned.value[3].safetyScore
    /\ returned.value # called.argument.processedRoutes

(***************************************************************************)
(* The polyline format, stated on the string alone.                        *)
(***************************************************************************)
\* the character carries the continuation bit 0x20
Continues(c) == (c - 63) >= 32

GroupEnds(str) == SelectSeq([i \in 1..Len(str) |-> i], LAMBDA i : ~Continues(str[i]))

\* the last character continues, or a latitude group has no longitude group
EndsMidGroup(str) ==
    \/ str # <<>> /\ Continues(str[Len(str)])
    \/ Len(GroupEnds(str)) % 2 = 1

\* the 5-bit fields of the characters first..last, least significant first
RECURSIVE GroupValue(_, _, _)
GroupValue(str, first, last) ==
    IF first > last THEN 0
    ELSE ((str[first] - 63) % 32) + 32 * GroupValue(str, first + 1, last)

\* the signed delta of the g-th group
DeltaOf(str, g) ==
    LET ends == GroupEnds(str)
        v == GroupValue(str, IF g = 1 THEN 1 ELSE ends[g - 1] + 1, ends[g])
    IN  IF v % 2 = 1 THEN 0 - ((v + 1) \div 2) ELSE v \div 2

RECURSIVE SumDeltas(_, _)
SumDeltas(str, g) ==
    IF g < 1 THEN 0 ELSE DeltaOf(str, g) + SumDeltas(str, g - 2)

(***************************************************************************)
(* C15 as stated: decodePolyline fails with MalformedInputError, and       *)
(* returns no point sequence, whenever the encoded string ends in the      *)
(* middle of a group: its last character has the continuation bit set, or  *)
(* it ends after a latitude group with no longitude group following.       *)
(***************************************************************************)
C15_TruncatedFails ==
    (called.function = "decodePolyline" /\ EndsMidGroup(called.argument)) =>
        /\ returned.error = "MalformedInputError"
        /\ returned.value = <<>>

(***************************************************************************)
(* C16: decodePolyline of the reference string _p~iF~ps|U_ulLnnqC_mqNvxq`@ *)
(* returns exactly the points (38.5, -120.2), (40.7, -120.95),             *)
(* (43.252, -126.453) in this order; in general each 5-bit group is the    *)
(* char code minus 63, groups are combined least significant first up to   *)
(* a group below 0x20, the value is zig-zag decoded, the deltas are        *)
(* accumulated and a coordinate is the accumulator divided by 1e5          *)
(* (coordinates are held in units of 1e-5 degree).                         *)
(***************************************************************************)
C16_ReferenceDecodes ==
    called.function = "decodePolyline" =>
        LET str == called.argument
            points == returned.value
        IN  /\ str = ReferencePolyline =>
                  points = << [lat |-> 3850000, lng |-> -12020000],
                              [lat |-> 4070000, lng |-> -12095000],
                              [lat |-> 4325200, lng |-> -12645300] >>
            /\ ~EndsMidGroup(str) =>
                  /\ 2 * Len(points) = Len(GroupEnds(str))
                  /\ \A n \in 1..Len(points) :
                        /\ points[n].lat = SumDeltas(str, 2 * n - 1)
                        /\ points[n].lng = SumDeltas(str, 2 * n)

\* the reference string decoded to three points, the last with both
\* coordinates changed by negative and positive multi-character deltas
C16_Witness ==
    /\ called.function = "decodePolyline"
    /\ Len(called.argument) = 27
    /\ called.argument[1] = 95 /\ called.argument[27] = 64
    /\ Len(returned.value) = 3
    /\ returned.value[3].lng < returned.value[2].lng
    /\ returned.value[3].lat > returned.value[2].lat

(***************************************************************************)
(* C14: ranking is stable under every preference: two alternatives with    *)
(* equal sort key (composite under balanced, duration under fastest,       *)
(* overall under safest) appear in the response in the order in which the  *)
(* directions provider returned them, whatever the order in which their    *)
(* tasks completed; durations [600, 500, 500] under fastest yield          *)
(* [500, 500, 600] with the two 500-second routes in provider order.       *)
(***************************************************************************)
SameKey(a, b, preference) ==
    IF preference = "safest" THEN a.safetyScore = b.safetyScore
    ELSE IF preference = "fastest" THEN a.duration.seconds = b.duration.seconds
    ELSE LET m == a.duration.seconds * b.duration.seconds
         IN  Blend(a, m) = Blend(b, m)

\* routeId is the provider's position of the alternative (1-based)
C14_StableRanking ==
    (calcPc = "responded" /\ response.status = 200) =>
        LET out == response.routes
        IN  /\ \A i, j \in 1..Len(out) :
                  (i < j /\ SameKey(out[i], out[j], request.routePreference))
                      => out[i].routeId < out[j].routeId
            /\ ( /\ request.routePreference = "fastest"
                 /\ [k \in 1..Len(routes) |-> routes[k].duration] = <<600, 500, 500>> )
               => /\ [i \in 1..Len(out) |-> out[i].duration.seconds] = <<500, 500, 600>>
                  /\ [i \in 1..Len(out) |-> out[i].routeId] = <<2, 3, 1>>

\* [600, 500, 500] under fastest answered, the third alternative's task having
\* completed first and the second one's last
C14_Witness ==
    /\ calcPc = "responded"
    /\ response.status = 200
    /\ request.routePreference = "fastest"
    /\ [k \in 1..Len(routes) |-> routes[k].duration] = <<600, 500, 500>>
    /\ [i \in 1..Len(routeDocs) |-> routeDocs[i]._id] = <<3, 1, 2>>
    /\ [i \in 1..Len(response.routes) |-> response.routes[i].routeId] = <<2, 3, 1>>

(***************************************************************************)
(* C17: scoring is all-or-nothing per route: when a proximity query of a   *)
(* route's scoring fails, no SafetyScore is returned for the route         *)
(* (neither a partial score from the samples done so far nor the baseline  *)
(* default), no record of it is stored, and the calculate request answers  *)
(* with an error and no route list.                                        *)
(***************************************************************************)
C17_AllOrNothing ==
    \A k \in 1..Len(tasks) :
        tasks[k].rejected = 1 =>
            /\ tasks[k].pc = "rejected"
            /\ tasks[k].safetyScore = NoScore
            /\ \A i \in 1..Len(routeDocs) : routeDocs[i]._id # k
            /\ calcPc = "responded"
            /\ response.status = 500
            /\ response.routes = <<>>

\* the second query of a route failed after the first had lowered
\* communityReports, and a sibling alternative has been scored meanwhile
C17_Witness ==
    \E k, j \in 1..Len(tasks) :
        /\ tasks[k].rejected = 1
        /\ tasks[k].sampleIdx = 1
        /\ tasks[k].factors.communityReports < 8 * Scale
        /\ tasks[j].pc = "returned"
        /\ tasks[j].safetyScore.overall < 68

(***************************************************************************)
(* C20: alternatives of one calculate request are scored independently:    *)
(* with a report store that does not change during the request, the        *)
(* accumulators and the SafetyScore of each alternative are, under every   *)
(* interleaving of the scoring tasks of its siblings, those of scoring the *)
(* alternative alone (no accumulator is shared between alternatives).      *)
(***************************************************************************)
\* the query results of the first n sample points against the store
ResultsAlone(samples, n, store) ==
    [i \in 1..n |-> findNearby(store, <<samples[i].lng, samples[i].lat>>, 500)]

C20_ScoredIndependently ==
    \A k \in 1..Len(tasks) :
        LET samples == tasks[k].samplePoints
            alone == finish(accumulate(priors, ResultsAlone(samples, Len(samples), reports)))
        IN  /\ tasks[k].pc = "query" =>
                  tasks[k].factors =
                      accumulate(priors, ResultsAlone(samples, tasks[k].sampleIdx, reports))
            /\ tasks[k].pc \in {"save", "returned"} =>
                  /\ tasks[k].safetyScore = alone
                  /\ tasks[k].routeDoc.safetyScore = alone
            /\ (calcPc = "responded" /\ response.status = 200) =>
                  /\ samples = sample(decodePolyline(routes[k].overview_polyline))
                  /\ \E i \in 1..Len(response.routes) :
                        /\ response.routes[i].routeId = k
                        /\ response.routes[i].safetyScore = alone.overall
                        /\ response.routes[i].safetyFactors = alone.factors

\* two scoring tasks are both suspended between their first and second query,
\* each with communityReports already lowered, while a third alternative has
\* been scored below the baseline
C20_Witness ==
    \E j, k, l \in 1..Len(tasks) :
        /\ j < k
        /\ tasks[j].pc = "query" /\ tasks[j].sampleIdx = 1
        /\ tasks[k].pc = "query" /\ tasks[k].sampleIdx = 1
        /\ tasks[j].factors.communityReports < 8 * Scale
        /\ tasks[k].factors.communityReports < 8 * Scale
        /\ tasks[l].pc \in {"save", "returned"}
        /\ tasks[l].safetyScore.overall < 68

(***************************************************************************)
(* C18: once a RouteRecord is created, no save or feedback request changes *)
(* its routeType, safetyScore (overall and factors), tags, routeData,      *)
(* origin, destination or userId: save only sets isSaved to true, feedback *)
(* only sets feedback, isCompleted = true and completedAt.                 *)
(***************************************************************************)
Created(doc) ==
    [_id |-> doc._id, userId |-> doc.userId, origin |-> doc.origin,
     destination |-> doc.destination, routeData |-> doc.routeData,
     safetyScore |-> doc.safetyScore, routeType |-> doc.routeType, tags |-> doc.tags]

C18_CreatedFieldsFrozen ==
    [][ /\ Len(routeDocs') >= Len(routeDocs)
        /\ \A i \in 1..Len(routeDocs) :
              LET old == routeDocs[i]
                  new == routeDocs'[i]
              IN  /\ Created(new) = Created(old)
                  /\ new # old =>
                        \/ /\ reply'.op = "save"
                           /\ new = [old EXCEPT !.isSaved = TRUE]
                        \/ /\ reply'.op = "feedback"
                           /\ new.feedback \in FeedbackBodies
                           /\ new.completedAt \in Times
                           /\ new = [old EXCEPT !.feedback = new.feedback,
                                                !.isCompleted = TRUE,
                                                !.completedAt = new.completedAt] ]_vars

\* a record labelled fastest that was saved and was given the feedback with
\* rating 1 at time 2, next to a record of the same request nobody touched
C18_Witness ==
    \E i, j \in 1..Len(routeDocs) :
        /\ routeDocs[i].isSaved /\ routeDocs[i].isCompleted
        /\ routeDocs[i].feedback.rating = 1
        /\ routeDocs[i].completedAt = 2
        /\ routeDocs[i].tags = <<"Well-Lit", "High Traffic", "Main Roads">>
        /\ routeDocs[i].routeType = "fastest"
        /\ ~routeDocs[j].isSaved /\ ~routeDocs[j].isCompleted
        /\ reply.op = "feedback" /\ reply.status = 200

(***************************************************************************)
(* C19: a RouteRecord is owned by the user who requested its calculation,  *)
(* and only that user can read or mutate it: get, save and feedback of any *)
(* other authenticated user for its routeId answer 404 "Route not found"   *)
(* and leave the record unchanged.                                         *)
(***************************************************************************)
\* the answer r given on the collection docs
OwnerOnly(r, docs) ==
    LET owned == {i \in 1..Len(docs) : docs[i]._id = r.routeId /\ docs[i].userId = r.userId}
    IN  /\ r.status \in {200, 404}
        /\ r.status = 200 => owned # {}
        /\ owned = {} =>
              /\ r.status = 404
              /\ r.error = "Route not found"
              /\ r.body = <<>>
        /\ (r.op = "get" /\ r.status = 200) =>
              \E i \in owned : r.body = <<docs[i]>>

Failed(k) == tasks[k].pc = "rejected"

Persisted(k) == \E i \in 1..Len(routeDocs) : routeDocs[i] = tasks[k].routeDoc

C23_NoRollback ==
    /\ (\E k \in 1..Len(tasks) : Failed(k)) =>
          /\ calcPc = "responded"
          /\ response = [status |-> 500, routes |-> <<>>]
    /\ \A k \in 1..Len(tasks) :
          /\ tasks[k].pc = "returned" => Persisted(k)
          /\ Failed(k) => \A i \in 1..Len(routeDocs) : routeDocs[i]._id # k
    /\ Len(routeDocs) = Cardinality({k \in 1..Len(tasks) : tasks[k].pc = "returned"})

\* a request answered 500 because a save failed, after the save of a sibling
\* had completed: the sibling's record is in the collection
C23_Witness ==
    /\ response.status = 500
    /\ \E k, j \in 1..Len(tasks) :
          /\ Failed(k)
          /\ tasks[k].rejected = 0
          /\ tasks[j].pc = "returned"
          /\ Persisted(j)

(***************************************************************************)
(* C24: scoring changes communityReports only downwards from its prior 8,  *)
(* so the overall score of every alternative is at most 6.8; overall >= 8  *)
(* never holds, no alternative and no RouteRecord is labelled safest,      *)
(* every alternative is labelled fastest or balanced, and a request whose  *)
(* alternatives are all scored has at least one labelled fastest.  The     *)
(* bound on the accumulator is also checked for every result a proximity   *)
(* query can have with up to MaxReports reports of any type and severity.  *)
(***************************************************************************)
Scored(k) == tasks[k].pc \in {"save", "returned"}

\* results of one proximity query: up to MaxReports reports
QueryResults ==
    UNION { [1..n -> [reportType : ReportTypes, severity : Severities]] :
            n \in 0..MaxReports }

C24_NeverSafest ==
    /\ \A k \in 1..Len(tasks) :
          /\ tasks[k].factors.communityReports <= 8 * Scale
          /\ Scored(k) =>
                /\ tasks[k].safetyScore.overall <= 68
                /\ tasks[k].routeType \in {"fastest", "balanced"}
                /\ tasks[k].routeDoc.routeType = tasks[k].routeType
    /\ \A i \in 1..Len(routeDocs) :
          /\ routeDocs[i].safetyScore.overall <= 68
          /\ routeDocs[i].routeType \in {"fastest", "balanced"}
    /\ (tasks # <<>> /\ \A k \in 1..Len(tasks) : Scored(k)) =>
          \E k \in 1..Len(tasks) : tasks[k].routeType = "fastest"
    /\ response.status = 200 =>
          /\ \E i \in 1..Len(response.routes) : response.routes[i].routeType = "fastest"
          /\ \A i \in 1..Len(response.routes) :
                /\ response.routes[i].routeType \in {"fastest", "balanced"}
                /\ response.routes[i].safetyScore <= 68
    /\ calcPc = "idle" =>
          \A nearbyReports \in QueryResults :
              /\ addQuery(priors, nearbyReports).communityReports <= 8 * Scale
              /\ finish(addQuery(priors, nearbyReports)).overall <= 68

\* a request answered with three alternatives, the first one scored with a
\* report near its samples and labelled balanced, another labelled fastest
C24_Witness ==
    /\ response.status = 200
    /\ Len(tasks) = 3
    /\ tasks[1].factors.communityReports < 8 * Scale
    /\ tasks[1].safetyScore.overall < 68
    /\ tasks[1].routeType = "balanced"
    /\ \E k \in 2..3 : tasks[k].routeType = "fastest"

(***************************************************************************)
(* C25: in every scoring of a route, whatever reports lie near it, the     *)
(* accumulators and the returned factors lighting, policePresence,         *)
(* crimeRate, pedestrianTraffic and roadCondition are 7, 6, 7, 6, 7, so    *)
(* the tags of every RouteRecord that calculate creates are exactly        *)
(* Well-Lit, High Traffic, Main Roads in this order; Police Patrolled is   *)
(* never among them.  The same is checked for every result a proximity    *)
(* query can have with up to MaxReports reports of any type and severity.  *)
(***************************************************************************)
FivePriors(f) ==
    /\ f.lighting = 7 * Scale
    /\ f.policePresence = 6 * Scale
    /\ f.crimeRate = 7 * Scale
    /\ f.pedestrianTraffic = 6 * Scale
    /\ f.roadCondition = 7 * Scale

FixedTags == <<"Well-Lit", "High Traffic", "Main Roads">>

C25_FixedTags ==
    /\ \A k \in 1..Len(tasks) :
          /\ FivePriors(tasks[k].factors)
          /\ Scored(k) =>
                /\ FivePriors(tasks[k].safetyScore.factors)
                /\ tasks[k].routeDoc.tags = FixedTags
    /\ \A i \in 1..Len(routeDocs) :
          /\ FivePriors(routeDocs[i].safetyScore.factors)
          /\ routeDocs[i].tags = FixedTags
          /\ "Police Patrolled" \notin RangeOf(routeDocs[i].tags)
    /\ response.status = 200 =>
          \A i \in 1..Len(response.routes) :
              /\ FivePriors(response.routes[i].safetyFactors)
              /\ response.routes[i].tags = FixedTags
    /\ calcPc = "idle" =>
          \A nearbyReports \in QueryResults :
              LET safetyScore == finish(addQuery(priors, nearbyReports))
              IN  /\ FivePriors(safetyScore.factors)
                  /\ generateRouteTags(safetyScore) = FixedTags

\* a stored record whose communityReports was brought down to 0 by a
\* critical report next to every sample, beside one scored with no report near
C25_Witness ==
    \E i, j \in 1..Len(routeDocs) :
        /\ routeDocs[i].safetyScore.factors.communityReports = 0
        /\ routeDocs[j].safetyScore.factors.communityReports = 8 * Scale
        /\ routeDocs[i].tags = FixedTags
        /\ routeDocs[j].tags = FixedTags

(***************************************************************************)
(* C22: decodePolyline terminates on every input string, also on one that  *)
(* ends inside a group.  Every iteration of an inner loop advances the     *)
(* read index by one; an inner loop goes on exactly while the character    *)
(* read lies inside the string and its group value is 0x20 or more, so it  *)
(* stops at the first group below 0x20 or at the first read past the end;  *)
(* the index never passes the length of the string by more than two; each  *)
(* point pushed has taken at least two reads; a call that has begun        *)
(* returns, and returns the complete list of points.                       *)
(***************************************************************************)
ReadAdvances ==
    dec.pc \in {"lat", "lng"} =>
        LET inside == dec.index < Len(dec.encoded)
            goesOn == inside /\ dec.encoded[dec.index + 1] - 63 >= 32
        IN  /\ dec'.index = dec.index + 1
            /\ (dec'.pc = dec.pc) <=> goesOn
            /\ Len(dec'.points) <= Len(dec.points) + 1

DecodeBounded ==
    /\ dec.index <= Len(dec.encoded) + 2
    /\ 2 * Len(dec.points) <= dec.index
    /\ dec.pc = "done" =>
          /\ dec.index >= Len(dec.encoded)
          /\ dec.points = decodePolyline(dec.encoded)

Helpful(users) == Cardinality({i \in 1..Len(users) : users[i].vote = "helpful"})

VotesTallied ==
    \A r \in 1..Len(reports) :
        LET votes == reports[r].votes
        IN  /\ \A i, j \in 1..Len(votes.users) :
                  votes.users[i].userId = votes.users[j].userId => i = j
            /\ \A i \in 1..Len(votes.users) :
                  votes.users[i].vote \in {"helpful", "not-helpful"}
            /\ votes.helpful = Helpful(votes.users)
            /\ votes.helpful >= 0

\* the vote of userId on a report, "" when the user has none
VoteOf(report, userId) ==
    LET i == existingVote(report.votes.users, userId)
    IN  IF i = 0 THEN "" ELSE report.votes.users[i].vote

LatestVoteKept ==
    LET req == reply'
    IN  /\ (req.status = 400) <=> (req.vote \notin {"helpful", "not-helpful"})
        /\ req.status # 200 => reports' = reports
        /\ req.status = 200 =>
              /\ Len(reports') = Len(reports)
              /\ VoteOf(reports'[req.reportId], req.userId) = req.vote
              /\ req.body.helpfulCount = reports'[req.reportId].votes.helpful
              /\ \A r \in 1..Len(reports), u \in Voters :
                    (r # req.reportId \/ u # req.userId) =>
                        VoteOf(reports'[r], u) = VoteOf(reports[r], u)

C26_VotesConsistent ==
    /\ []VotesTallied
    /\ [][LatestVoteKept]_vars

\* the first voter of a report with three voters has just changed a helpful
\* vote to not-helpful, and one helpful vote is left
C26_Witness ==
    /\ reply.op = "vote"
    /\ reply.status = 200
    /\ reply.existing = "helpful"
    /\ reply.vote = "not-helpful"
    /\ LET votes == reports[reply.reportId].votes
       IN  /\ Len(votes.users) = 3
           /\ votes.users[1].userId = reply.userId
           /\ votes.helpful = 1

(***************************************************************************)
(* C21: every report created by POST /reports has exactly one              *)
(* new-safety-report event, made of reportId, reportType, location,        *)
(* severity and timestamp of the stored report.  The event is published    *)
(* only for a report that is in the store, and it is published when the    *)
(* request is answered 201.  A request answered 400 (validation) or 500    *)
(* (the save failed) has no event and no stored report.                    *)
(***************************************************************************)
EventsOf(id) == {e \in 1..Len(events) : events[e].reportId = id}

StoredBy(i) == {r \in 1..Len(reports) : reports[r]._id = posts[i].reportId}

C21_OneEventPerReport ==
    /\ \A e \in 1..Len(events) :
          /\ DOMAIN events[e] =
                {"reportId", "reportType", "location", "severity", "timestamp"}
          /\ \E r \in 1..Len(reports) :
                /\ events[e].reportId = reports[r]._id
                /\ events[e].reportType = reports[r].reportType
                /\ events[e].location = reports[r].coordinates
                /\ events[e].severity = reports[r].severity
                /\ events[e].timestamp = reports[r].createdAt
          /\ \E i \in 1..Len(posts) :
                posts[i].reportId = events[e].reportId /\ posts[i].status = 201
    /\ \A i \in 1..Len(posts) :
          /\ posts[i].status = 201 =>
                /\ Cardinality(EventsOf(posts[i].reportId)) = 1
                /\ Cardinality(StoredBy(i)) = 1
          /\ posts[i].pc = "saved" =>
                /\ EventsOf(posts[i].reportId) = {}
                /\ Cardinality(StoredBy(i)) = 1
          /\ posts[i].status \in {400, 500} =>
                /\ posts[i].reportId = 0
                /\ StoredBy(i) = {}
                /\ EventsOf(posts[i].reportId) = {}
          /\ posts[i].status = 400 <=>
                (posts[i].pc = "answered" /\ missingFields(posts[i].body))
          /\ \A j \in 1..Len(posts) :
                (posts[i].reportId # 0 /\ posts[i].reportId = posts[j].reportId) => i = j
    /\ Len(events) = Cardinality({i \in 1..Len(posts) : posts[i].status = 201})
    /\ Len(reports) = Cardinality({i \in 1..Len(posts) : posts[i].reportId # 0})

\* three requests: one created a report with the default severity and was
\* answered 201 after the save of another had failed, one failed validation
C21_Witness ==
    /\ Len(events) = 1
    /\ Len(reports) = 1
    /\ events[1].severity = "medium"
    /\ \E i, j, k \in 1..Len(posts) :
          /\ posts[i].status = 201 /\ posts[i].body.severity = ""
          /\ posts[j].status = 500 /\ schemaAccepts(posts[j].body)
          /\ posts[k].status = 400

====
